---- MODULE Spec2Model ----
(***************************************************************************)
(* Model of the Lingua Franca runtime infrastructure (rti.c): a server     *)
(* that accepts number_of_federates connections, runs one thread per       *)
(* federate, collects one proposed start time from each, and answers every *)
(* federate with the maximum once all have proposed.                       *)
(***************************************************************************)
EXTENDS Integers, Sequences, FiniteSets, TLC

\* ------------------------------------------------------------------ bounds
MaxFeds == 2
MaxNeg == 1
MaxPos == 2

\* --------------------------------------------------------------- constants
MsgLen == 9
TIMESTAMP == 2
BadFd == 0 - 1
NoThread == 0

\* Some message ID that is not TIMESTAMP.
OtherTag == TIMESTAMP + 1

Feds == 1..MaxFeds
Instants == (0 - MaxNeg)..MaxPos
Tags == {TIMESTAMP, OtherTag}

VARIABLES
    number_of_federates,       \* global, set by main
    main_pc,                   \* position of the main thread
    next_fed,                  \* loop index i of connect_to_federates (feds accepted)
    joined,                    \* loop index i of the join loop (threads joined)
    fed_socket_descriptor,     \* descriptor per federate (0 = not yet accepted)
    pc,                        \* position of each federate thread
    msg,                       \* the bytes each peer has delivered so far
    bytes_read,                \* local of federate()
    buffer,                    \* local of federate(): bytes accumulated so far
    timestamp,                 \* local of federate(): decoded instant
    warned,                    \* whether the thread printed the TIMESTAMP diagnostic
    mutex,                     \* owner of the one and only mutex, NoThread if free
    max_start_time,            \* global
    num_feds_proposed_start,   \* global
    response,                  \* bytes written to each peer so far
    closed,                    \* whether close() was called on the connection
    terminated,                \* the process ended through error()
    registered,                \* history: increments performed by each thread
    max_at_release             \* history: {max_start_time} as of the step the count reached N

vars == <<number_of_federates, main_pc, next_fed, joined, fed_socket_descriptor,
          pc, msg, bytes_read, buffer, timestamp, warned, mutex, max_start_time,
          num_feds_proposed_start, response, closed, terminated, registered,
          max_at_release>>

mainVars == <<main_pc, next_fed, joined>>
localVars == <<bytes_read, buffer, timestamp, warned>>
sharedVars == <<mutex, max_start_time, num_feds_proposed_start, registered, max_at_release>>

\* ------------------------------------------------------------------- codec
\* Byte k (0 = least significant) of the 64-bit two's complement of v.
\* Exact for |v| < 2^31, which covers Instants.
ByteOf(v, k) ==
    IF k <= 3 THEN (v \div (256 ^ k)) % 256
    ELSE IF v < 0 THEN 255 ELSE 0

\* Eight bytes, most significant first (network byte order).
EncodeInstant(v) == [i \in 1..8 |-> ByteOf(v, 8 - i)]

RECURSIVE DecodeFrom(_, _, _)
DecodeFrom(b, i, acc) ==
    IF i > Len(b) THEN acc ELSE DecodeFrom(b, i + 1, acc * 256 + b[i])

\* Network byte order to a signed integer.
DecodeInstant(b) ==
    DecodeFrom(b, 2, IF b[1] >= 128 THEN b[1] - 256 ELSE b[1])

\* A peer's proposal on the wire.
ProposalBytes(tag, t) == <<tag>> \o EncodeInstant(t)

\* The messages a peer may send.
WireMessages == {ProposalBytes(tag, t) : tag \in Tags, t \in Instants}

\* What a peer may have delivered once k bytes have arrived.
Delivered(k) == {SubSeq(m, 1, k) : m \in WireMessages}

\* The instant a peer put into its message.
Proposed(h) == DecodeInstant(SubSeq(msg[h], 2, MsgLen))

\* Mutation: max_start_time starts below every proposal.
InitialMaxLowest == 0 - (MaxNeg + 1)

\* instant_t max_start_time = 0LL;
InitialMax == 0

\* ------------------------------------------------------------------ Init
Init ==
    /\ number_of_federates \in 1..MaxFeds
    /\ main_pc = "create_server"
    /\ next_fed = 0
    /\ joined = 0
    /\ fed_socket_descriptor = [h \in Feds |-> 0]
    /\ pc = [h \in Feds |-> "none"]
    /\ msg = [h \in Feds |-> <<>>]
    /\ bytes_read = [h \in Feds |-> 0]
    /\ buffer = [h \in Feds |-> <<>>]
    /\ timestamp = [h \in Feds |-> 0]
    /\ warned = [h \in Feds |-> FALSE]
    /\ mutex = NoThread
    /\ max_start_time = InitialMax
    /\ num_feds_proposed_start = 0
    /\ response = [h \in Feds |-> <<>>]
    /\ closed = [h \in Feds |-> FALSE]
    /\ terminated = FALSE
    /\ registered = [h \in Feds |-> 0]
    /\ max_at_release = {}

\* error(): print the diagnostic and end the process. Every thread ends with
\* it and the memory of the process (stacks, heap, mutex) is gone; what the
\* peers have sent and received stays, and so do the globals' last values.
error ==
    /\ terminated' = TRUE
    /\ main_pc' = "killed"
    /\ next_fed' = 0
    /\ joined' = 0
    /\ fed_socket_descriptor' = [h \in Feds |-> 0]
    /\ pc' = [h \in Feds |-> IF pc[h] \in {"none", "returned"} THEN pc[h] ELSE "killed"]
    /\ bytes_read' = [h \in Feds |-> 0]
    /\ buffer' = [h \in Feds |-> <<>>]
    /\ timestamp' = [h \in Feds |-> 0]
    /\ warned' = [h \in Feds |-> FALSE]
    /\ mutex' = NoThread
    /\ UNCHANGED <<number_of_federates, msg, max_start_time, num_feds_proposed_start,
                   response, closed, registered, max_at_release>>

\* ------------------------------------------------------------------ main
CreateServer ==
    /\ ~terminated
    /\ main_pc = "create_server"
    /\ main_pc' = "accept"
    /\ UNCHANGED <<number_of_federates, next_fed, joined, fed_socket_descriptor, pc, msg,
                   localVars, sharedVars, response, closed, terminated>>

CreateServerFail ==
    /\ ~terminated
    /\ main_pc = "create_server"
    /\ error

\* The test after accept(): `fed_socket_descriptor < 0` compares the array
\* pointer, not the element just stored, so it is false whatever accept returned.
AcceptFailed(fd) == FALSE

\* One iteration of the loop of connect_to_federates: accept() returned fd.
AcceptWith(fd) ==
    /\ ~terminated
    /\ main_pc = "accept"
    /\ next_fed < number_of_federates
    /\ IF AcceptFailed(fd)
       THEN error
       ELSE /\ fed_socket_descriptor' = [fed_socket_descriptor EXCEPT ![next_fed + 1] = fd]
            /\ pc' = [pc EXCEPT ![next_fed + 1] = "read"]
            /\ next_fed' = next_fed + 1
            /\ UNCHANGED <<number_of_federates, main_pc, joined, msg, localVars,
                           sharedVars, response, closed, terminated>>

\* accept() returned a descriptor.
Accept == AcceptWith(next_fed + 1)

\* accept() returned -1.
AcceptFail == AcceptWith(BadFd)

\* connect_to_federates returns.
Connected ==
    /\ ~terminated
    /\ main_pc = "accept"
    /\ next_fed = number_of_federates
    /\ main_pc' = "join"
    /\ UNCHANGED <<number_of_federates, next_fed, joined, fed_socket_descriptor, pc, msg,
                   localVars, sharedVars, response, closed, terminated>>

\* Mutation: the join returns whether or not the thread has ended.
JoinNoWait ==
    /\ ~terminated
    /\ main_pc = "join"
    /\ joined < number_of_federates
    /\ joined' = joined + 1
    /\ UNCHANGED <<number_of_federates, main_pc, next_fed, fed_socket_descriptor, pc, msg,
                   localVars, sharedVars, response, closed, terminated>>

\* pthread_join of thread_ids[joined].
Join ==
    /\ ~terminated
    /\ main_pc = "join"
    /\ joined < number_of_federates
    /\ pc[joined + 1] = "returned"
    /\ joined' = joined + 1
    /\ UNCHANGED <<number_of_federates, main_pc, next_fed, fed_socket_descriptor, pc, msg,
                   localVars, sharedVars, response, closed, terminated>>

\* close(socket_descriptor); free(...); main returns.
Cleanup ==
    /\ ~terminated
    /\ main_pc = "join"
    /\ joined = number_of_federates
    /\ main_pc' = "exited"
    /\ UNCHANGED <<number_of_federates, next_fed, joined, fed_socket_descriptor, pc, msg,
                   localVars, sharedVars, response, closed, terminated>>

\* -------------------------------------------------------------- federate
\* Number of bytes the next read() asks for.
ReadRequest(br) == MsgLen - br

\* Mutation: the read loop stops one byte early.
NeedMoreShort(br) == br < MsgLen - 1

\* Loop test of the read loop.
NeedMore(br) == br < MsgLen

\* read() returned more > 0 bytes.
ReadChunk(h) ==
    /\ ~terminated
    /\ pc[h] = "read"
    /\ fed_socket_descriptor[h] # BadFd
    /\ \E more \in 1..ReadRequest(bytes_read[h]) :
       \E m \in Delivered(Len(msg[h]) + more) :
        /\ SubSeq(m, 1, Len(msg[h])) = msg[h]
        /\ msg' = [msg EXCEPT ![h] = m]
        /\ buffer' = [buffer EXCEPT ![h] =
                @ \o SubSeq(m, Len(msg[h]) + 1, Len(msg[h]) + more)]
        /\ bytes_read' = [bytes_read EXCEPT ![h] = @ + more]
        /\ pc' = [pc EXCEPT ![h] =
                IF NeedMore(bytes_read[h] + more) THEN "read" ELSE "decode"]
    /\ UNCHANGED <<number_of_federates, mainVars, fed_socket_descriptor, timestamp,
                   warned, sharedVars, response, closed, terminated>>

\* Mutation: a thread that met EOF goes on to the barrier.
AfterEOFRegister == "lock"

\* Where the thread goes when read() returns 0: `return NULL`.
AfterEOF == "returned"

\* read() returned 0: the peer closed the connection.
ReadEOF(h) ==
    /\ ~terminated
    /\ pc[h] = "read"
    /\ fed_socket_descriptor[h] # BadFd
    /\ pc' = [pc EXCEPT ![h] = AfterEOF]
    /\ UNCHANGED <<number_of_federates, mainVars, fed_socket_descriptor, msg, localVars,
                   sharedVars, response, closed, terminated>>

\* read() returned a negative value (always so on a bad descriptor).
ReadFail(h) ==
    /\ ~terminated
    /\ pc[h] = "read"
    /\ error

\* Mutation: a message with a wrong ID is dropped and the thread returns.
AfterDecodeReject(tag) == IF tag # TIMESTAMP THEN "returned" ELSE "lock"

\* Where the thread goes after looking at the message ID: a wrong ID only
\* prints a diagnostic.
AfterDecode(tag) == "lock"

\* The message ID test and the conversion of the payload.
Decode(h) ==
    /\ ~terminated
    /\ pc[h] = "decode"
    /\ warned' = [warned EXCEPT ![h] = (buffer[h][1] # TIMESTAMP)]
    /\ timestamp' = [timestamp EXCEPT ![h] = DecodeInstant(SubSeq(buffer[h], 2, MsgLen))]
    /\ pc' = [pc EXCEPT ![h] = AfterDecode(buffer[h][1])]
    /\ UNCHANGED <<number_of_federates, mainVars, fed_socket_descriptor, msg, bytes_read,
                   buffer, sharedVars, response, closed, terminated>>

\* Mutation: the lock is taken whether or not another thread holds it.
LockNoWait(h) ==
    /\ ~terminated
    /\ pc[h] = "lock"
    /\ mutex' = h
    /\ pc' = [pc EXCEPT ![h] = "crit"]
    /\ UNCHANGED <<number_of_federates, mainVars, fed_socket_descriptor, msg, localVars,
                   max_start_time, num_feds_proposed_start, registered, max_at_release,
                   response, closed, terminated>>

\* pthread_mutex_lock.
Lock(h) ==
    /\ ~terminated
    /\ pc[h] = "lock"
    /\ mutex = NoThread
    /\ mutex' = h
    /\ pc' = [pc EXCEPT ![h] = "crit"]
    /\ UNCHANGED <<number_of_federates, mainVars, fed_socket_descriptor, msg, localVars,
                   max_start_time, num_feds_proposed_start, registered, max_at_release,
                   response, closed, terminated>>

\* Mutation: the proposal is stored without the comparison.
MaxUpdateAssign(ts, m) == ts

\* if (timestamp > max_start_time) max_start_time = timestamp;
MaxUpdate(ts, m) == IF ts > m THEN ts ELSE m

\* Mutation: the counter is advanced twice.
IncrementTwice(n) == n + 2

\* num_feds_proposed_start++;
Increment(n) == n + 1

\* Mutation: every arriver takes itself for the last one.
AllProposedAlways(n) == TRUE

\* if (num_feds_proposed_start == number_of_federates)
AllProposed(n) == n = number_of_federates

\* Mutation: the wait loop is never left.
MustWaitAlways(n) == TRUE

\* Mutation: the wait loop is never entered.
MustWaitNever(n) == FALSE

\* while (num_feds_proposed_start < number_of_federates)
MustWait(n) == n < number_of_federates

\* Mutation: the last arriver wakes nobody.
BroadcastNone(p) == p

\* pthread_cond_broadcast: every thread blocked on the condition is woken.
Broadcast(p) == [k \in Feds |-> IF p[k] = "waiting" THEN "woken" ELSE p[k]]

\* The critical section up to the broadcast or the first pthread_cond_wait.
Register(h) ==
    /\ ~terminated
    /\ pc[h] = "crit"
    /\ mutex = h
    /\ LET n == Increment(num_feds_proposed_start)
           m == MaxUpdate(timestamp[h], max_start_time)
       IN
        /\ num_feds_proposed_start' = n
        /\ max_start_time' = m
        /\ registered' = [registered EXCEPT ![h] = @ + 1]
        /\ max_at_release' = IF n = number_of_federates THEN {m} ELSE max_at_release
        /\ IF AllProposed(n)
           THEN /\ pc' = [Broadcast(pc) EXCEPT ![h] = "unlock"]
                /\ UNCHANGED mutex
           ELSE IF MustWait(n)
           THEN /\ pc' = [pc EXCEPT ![h] = "waiting"]
                /\ mutex' = NoThread
           ELSE /\ pc' = [pc EXCEPT ![h] = "unlock"]
                /\ UNCHANGED mutex
    /\ UNCHANGED <<number_of_federates, mainVars, fed_socket_descriptor, msg, localVars,
                   response, closed, terminated>>

\* pthread_cond_wait may return without a broadcast.
SpuriousWakeup(h) ==
    /\ ~terminated
    /\ pc[h] = "waiting"
    /\ pc' = [pc EXCEPT ![h] = "woken"]
    /\ UNCHANGED <<number_of_federates, mainVars, fed_socket_descriptor, msg, localVars,
                   sharedVars, response, closed, terminated>>

\* pthread_cond_wait reacquires the mutex before it returns.
Relock(h) ==
    /\ ~terminated
    /\ pc[h] = "woken"
    /\ mutex = NoThread
    /\ mutex' = h
    /\ pc' = [pc EXCEPT ![h] = "recheck"]
    /\ UNCHANGED <<number_of_federates, mainVars, fed_socket_descriptor, msg, localVars,
                   max_start_time, num_feds_proposed_start, registered, max_at_release,
                   response, closed, terminated>>

\* Mutation: the wait is guarded by `if`, so any return from
\* pthread_cond_wait leaves the barrier.
RecheckIf(h) ==
    /\ ~terminated
    /\ pc[h] = "recheck"
    /\ mutex = h
    /\ pc' = [pc EXCEPT ![h] = "unlock"]
    /\ UNCHANGED mutex
    /\ UNCHANGED <<number_of_federates, mainVars, fed_socket_descriptor, msg, localVars,
                   max_start_time, num_feds_proposed_start, registered, max_at_release,
                   response, closed, terminated>>

\* The loop test after pthread_cond_wait returned.
Recheck(h) ==
    /\ ~terminated
    /\ pc[h] = "recheck"
    /\ mutex = h
    /\ IF MustWait(num_feds_proposed_start)
       THEN /\ pc' = [pc EXCEPT ![h] = "waiting"]
            /\ mutex' = NoThread
       ELSE /\ pc' = [pc EXCEPT ![h] = "unlock"]
            /\ UNCHANGED mutex
    /\ UNCHANGED <<number_of_federates, mainVars, fed_socket_descriptor, msg, localVars,
                   max_start_time, num_feds_proposed_start, registered, max_at_release,
                   response, closed, terminated>>

\* Mutation: the thread goes on to write its response with the mutex held.
UnlockKeep(h) ==
    /\ ~terminated
    /\ pc[h] = "unlock"
    /\ mutex = h
    /\ UNCHANGED mutex
    /\ pc' = [pc EXCEPT ![h] = "write_marker"]
    /\ UNCHANGED <<number_of_federates, mainVars, fed_socket_descriptor, msg, localVars,
                   max_start_time, num_feds_proposed_start, registered, max_at_release,
                   response, closed, terminated>>

\* pthread_mutex_unlock.
Unlock(h) ==
    /\ ~terminated
    /\ pc[h] = "unlock"
    /\ mutex = h
    /\ mutex' = NoThread
    /\ pc' = [pc EXCEPT ![h] = "write_marker"]
    /\ UNCHANGED <<number_of_federates, mainVars, fed_socket_descriptor, msg, localVars,
                   max_start_time, num_feds_proposed_start, registered, max_at_release,
                   response, closed, terminated>>

\* write(client_socket_descriptor, &message_marker, 1)
WriteMarker(h) ==
    /\ ~terminated
    /\ pc[h] = "write_marker"
    /\ response' = [response EXCEPT ![h] = <<TIMESTAMP>>]
    /\ pc' = [pc EXCEPT ![h] = "write_time"]
    /\ UNCHANGED <<number_of_federates, mainVars, fed_socket_descriptor, msg, localVars,
                   sharedVars, closed, terminated>>

\* Mutation: the thread answers with its own proposal.
ResponseOwn(h) == timestamp[h]

\* The instant the thread sends: the global, read after the unlock.
ResponseValue(h) == max_start_time

\* write(client_socket_descriptor, &message, sizeof(long long))
WriteTime(h) ==
    /\ ~terminated
    /\ pc[h] = "write_time"
    /\ response' = [response EXCEPT ![h] = @ \o EncodeInstant(ResponseValue(h))]
    /\ pc' = [pc EXCEPT ![h] = "close"]
    /\ UNCHANGED <<number_of_federates, mainVars, fed_socket_descriptor, msg, localVars,
                   sharedVars, closed, terminated>>

\* Either write() returned a negative value.
WriteFail(h) ==
    /\ ~terminated
    /\ pc[h] \in {"write_marker", "write_time"}
    /\ error

\* close(client_socket_descriptor); return NULL;
Close(h) ==
    /\ ~terminated
    /\ pc[h] = "close"
    /\ closed' = [closed EXCEPT ![h] = TRUE]
    /\ pc' = [pc EXCEPT ![h] = "returned"]
    /\ UNCHANGED <<number_of_federates, mainVars, fed_socket_descriptor, msg, localVars,
                   sharedVars, response, terminated>>

\* The steps of a federate thread that need no fault and no peer failure.
Progress(h) ==
    \/ ReadChunk(h) \/ Decode(h) \/ Lock(h) \/ Register(h) \/ Relock(h)
    \/ Recheck(h) \/ Unlock(h) \/ WriteMarker(h) \/ WriteTime(h) \/ Close(h)

MainProgress == CreateServer \/ Accept \/ Connected \/ Join \/ Cleanup

\* ------------------------------------------------------------------ Next
Next ==
    \/ CreateServer
    \/ CreateServerFail
    \/ Accept
    \/ AcceptFail
    \/ Connected
    \/ Join
    \/ Cleanup
    \/ \E h \in Feds : ReadChunk(h)
    \/ \E h \in Feds : ReadEOF(h)
    \/ \E h \in Feds : ReadFail(h)
    \/ \E h \in Feds : Decode(h)
    \/ \E h \in Feds : Lock(h)
    \/ \E h \in Feds : Register(h)
    \/ \E h \in Feds : SpuriousWakeup(h)
    \/ \E h \in Feds : Relock(h)
    \/ \E h \in Feds : Recheck(h)
    \/ \E h \in Feds : Unlock(h)
    \/ \E h \in Feds : WriteMarker(h)
    \/ \E h \in Feds : WriteTime(h)
    \/ \E h \in Feds : WriteFail(h)
    \/ \E h \in Feds : Close(h)

Spec == Init /\ [][Next]_vars

\* The scheduler runs every thread that can take a step; faults, peer
\* disconnects and spurious wakeups are not forced.
FairSpec ==
    /\ Spec
    /\ WF_vars(MainProgress)
    /\ \A h \in Feds : WF_vars(Progress(h))

\* As FairSpec, and a thread that finds the mutex free again and again
\* eventually gets it.
FairLockSpec ==
    /\ FairSpec
    /\ \A h \in Feds : SF_vars(Lock(h)) /\ SF_vars(Relock(h))

\* ---------------------------------------------------------------- claims
Active == 1..number_of_federates

\* The peer of connection h has received the whole 9-byte response.
Responded(h) == Len(response[h]) = MsgLen

\* The instant the peer of connection h decodes from its response.
ResponseInstant(h) == DecodeInstant(SubSeq(response[h], 2, MsgLen))

\* The peer of connection h has delivered a complete message.
Complete(h) == Len(msg[h]) = MsgLen

SetMax(S) == CHOOSE x \in S : \A y \in S : y <= x

\* The thread of connection h returned because its read met EOF.
EarlyEOF(h) == pc[h] = "returned" /\ ~Complete(h)

\* The thread is inside the barrier: suspended in pthread_cond_wait or
\* between its return and the loop test.
InBarrier(h) == pc[h] \in {"waiting", "woken", "recheck"}

\* The thread has passed pthread_mutex_unlock.
PastUnlock(h) ==
    \/ pc[h] \in {"write_marker", "write_time", "close"}
    \/ response[h] # <<>>
    \/ closed[h]

\* C1: whatever the signs of the N proposals, every response written to a
\* peer carries max(t1..tN).
C1_ResponseIsMax ==
    \A h \in Active :
        Responded(h) => ResponseInstant(h) = SetMax({Proposed(k) : k \in Active})

\* C2: a thread that has passed pthread_mutex_unlock (it is writing or has
\* written its response) implies num_feds_proposed_start = number_of_federates.
C2_NoEarlyRelease ==
    \A h \in Feds :
        PastUnlock(h) => num_feds_proposed_start = number_of_federates

\* One thread is already writing while another, woken by the broadcast, has
\* not yet reacquired the mutex.
C2_Witness ==
    \E h \in Feds, k \in Feds :
        pc[h] = "write_time" /\ response[h] # <<>> /\ pc[k] = "woken"

\* C3: any two responses carry the same value, and it is the value
\* max_start_time had in the step that registered the Nth proposal, although
\* each thread reads the global after it released the mutex.
C3_Agreement ==
    \A h \in Feds :
        Responded(h) =>
            /\ max_at_release = {ResponseInstant(h)}
            /\ \A k \in Feds : Responded(k) => response[k] = response[h]

\* Two peers that proposed different instants both hold a response.
C3_Witness ==
    \E h \in Feds, k \in Feds :
        /\ Responded(h) /\ Responded(k)
        /\ Complete(h) /\ Complete(k)
        /\ Proposed(h) < Proposed(k)

C6_RegistersIffComplete ==
    /\ [](\A h \in Feds :
            /\ registered[h] \in {0, 1}
            /\ registered[h] = 1 => Complete(h)
            /\ EarlyEOF(h) => registered[h] = 0
            /\ (InBarrier(h) \/ pc[h] = "unlock" \/ PastUnlock(h)) => registered[h] = 1)
    /\ [][\A h \in Feds :
            (pc[h] = "read" /\ pc'[h] = "returned")
            => /\ num_feds_proposed_start' = num_feds_proposed_start
               /\ max_start_time' = max_start_time
               /\ registered' = registered]_vars

\* One thread returned on EOF after a partial message while another
\* registered its complete one.
C6_Witness ==
    \E h \in Feds, k \in Feds :
        /\ EarlyEOF(h) /\ Len(msg[h]) > 0
        /\ registered[k] = 1
        /\ num_feds_proposed_start = 1

\* C7: a thread that has returned has closed its connection, on every path.
C7_ClosesOnEveryExit ==
    \A h \in Feds : pc[h] = "returned" => closed[h]

\* C8: a failed accept ends the process at once: no thread runs on the
\* failed descriptor.
C8_AcceptFaultFatal ==
    \A h \in Feds : fed_socket_descriptor[h] = BadFd => (terminated /\ pc[h] = "none")

\* C9: a complete message with a wrong ID is handled like a valid one: the
\* thread registers it, its instant takes part in the maximum, and the thread
\* waits, responds and closes.
C9_PermissiveTag ==
    \A h \in Feds :
        (Complete(h) /\ msg[h][1] # TIMESTAMP) =>
            /\ (InBarrier(h) \/ pc[h] = "unlock" \/ PastUnlock(h))
                    => (registered[h] = 1 /\ max_start_time >= Proposed(h))
            /\ pc[h] = "returned" => (Responded(h) /\ closed[h])
            /\ \A k \in Feds : Responded(k) => ResponseInstant(k) >= Proposed(h)

\* N = 2: the peer with the wrong ID proposed the larger instant and both
\* peers received it.
C9_Witness ==
    \E h \in Feds, k \in Feds :
        /\ number_of_federates = 2
        /\ Complete(h) /\ msg[h][1] # TIMESTAMP /\ Proposed(h) = MaxPos
        /\ Complete(k) /\ msg[k][1] = TIMESTAMP /\ Proposed(k) < MaxPos
        /\ Responded(h) /\ ResponseInstant(h) = MaxPos
        /\ Responded(k) /\ ResponseInstant(k) = MaxPos

\* C10: no step lowers max_start_time, and once num_feds_proposed_start
\* equals number_of_federates no step changes it.
C10_MonotoneThenFrozen ==
    [][/\ max_start_time' >= max_start_time
       /\ (num_feds_proposed_start = number_of_federates)
            => max_start_time' = max_start_time]_vars

\* All proposals are registered; the maximum was raised by one thread and
\* another thread's smaller positive proposal did not lower it.
C10_Witness ==
    \E h \in Feds, k \in Feds :
        /\ num_feds_proposed_start = number_of_federates
        /\ registered[h] = 1 /\ registered[k] = 1
        /\ timestamp[h] = MaxPos /\ timestamp[k] > 0 /\ timestamp[k] < MaxPos
        /\ max_start_time = MaxPos

\* The value the barrier ends with when the threads of the connections
\* p[1], p[2], ... register in that order: the code's update applied to the
\* peers' proposals one after the other, from the initial max_start_time.
RECURSIVE RegisterInOrder(_, _, _)
RegisterInOrder(p, i, acc) ==
    IF i > number_of_federates THEN acc
    ELSE RegisterInOrder(p, i + 1, MaxUpdate(Proposed(p[i]), acc))

\* C11: for the proposals of a run, the value delivered to a peer is the
\* value every order of registration of those proposals (every assignment of
\* the values to the peers, every interleaving) ends with.
C11_OrderIndependent ==
    \A h \in Active :
        Responded(h) =>
            \A p \in Permutations(Active) :
                ResponseInstant(h) = RegisterInOrder(p, 1, InitialMax)

\* Both peers hold their response; the connection accepted first proposed
\* the larger instant, and both proposals are positive.
C11_Witness ==
    \E h \in Feds, k \in Feds :
        /\ h < k
        /\ Responded(h) /\ Responded(k)
        /\ Complete(h) /\ Complete(k)
        /\ Proposed(h) > Proposed(k) /\ Proposed(k) > 0

\* C12: connect_to_federates accepts exactly N connections and starts exactly
\* one thread per accepted connection, and the next accept never waits for a
\* thread: it is enabled whatever the threads started so far are doing.
C12_AcceptsExactlyN ==
    ~terminated =>
        /\ next_fed <= number_of_federates
        /\ \A h \in Feds : (pc[h] # "none") <=> (h <= next_fed)
        /\ \A h \in Feds : (pc[h] # "none") => fed_socket_descriptor[h] > 0
        /\ main_pc \in {"join", "exited"} =>
                Cardinality({h \in Feds : fed_socket_descriptor[h] > 0})
                    = number_of_federates
        /\ (main_pc = "accept" /\ next_fed < number_of_federates) => ENABLED Accept

\* C13: main has released the shared resources (closed the listening socket,
\* freed the arrays) only when every one of the N threads has returned.
C13_ReleaseAfterJoin ==
    main_pc = "exited" =>
        /\ joined = number_of_federates
        /\ \A h \in Active : pc[h] = "returned"

\* N = 2: both threads responded, closed and returned, and main has released
\* the resources.
C13_Witness ==
    /\ number_of_federates = 2
    /\ main_pc = "exited"
    /\ \A h \in Active : Responded(h) /\ closed[h]

\* Every thread has written its response and closed its connection, and main
\* has joined all N threads and returned.
Completed ==
    /\ main_pc = "exited"
    /\ \A h \in Active : Responded(h) /\ closed[h] /\ pc[h] = "returned"

\* C14: under fair scheduling a run in which no transport fault occurs and no
\* peer closes before delivering its 9 bytes reaches the state where every
\* thread has responded and closed and main has joined all threads and exited.
C14_CompleteRunTerminates ==
    <>(\/ Completed
       \/ terminated
       \/ \E h \in Feds : fed_socket_descriptor[h] = BadFd
       \/ \E h \in Active : EarlyEOF(h))

\* The completed run with N = 2 and two different proposals.
C14_Witness ==
    /\ number_of_federates = 2
    /\ Completed
    /\ \E h \in Active, k \in Active : Proposed(h) < Proposed(k)

\* The thread is between pthread_mutex_lock and pthread_mutex_unlock and not
\* suspended in pthread_cond_wait.
Holder(h) == pc[h] \in {"crit", "recheck", "unlock"}

\* The step changes the barrier state.
BarrierWrite ==
    \/ num_feds_proposed_start' # num_feds_proposed_start
    \/ max_start_time' # max_start_time

\* C15: at most one thread is between lock and unlock while not suspended in
\* the wait, that thread owns the mutex, and every step that changes
\* num_feds_proposed_start or max_start_time is taken by the mutex owner from
\* inside its critical section.
C15_MutualExclusion ==
    /\ [](\A h \in Feds :
            Holder(h) => mutex = h /\ \A k \in Feds : Holder(k) => k = h)
    /\ [][BarrierWrite =>
            \E h \in Feds :
                /\ mutex = h
                /\ pc[h] = "crit"
                /\ registered'[h] = registered[h] + 1
                /\ \A k \in Feds \ {h} : registered'[k] = registered[k]]_vars

\* One thread is in its critical section while another is blocked in
\* pthread_mutex_lock.
C15_Witness ==
    \E h \in Feds, k \in Feds :
        /\ pc[h] = "crit" /\ mutex = h
        /\ pc[k] = "lock"

\* C16: 0 <= num_feds_proposed_start <= number_of_federates, and the counter
\* is the number of threads that have executed the increment.
C16_CountIsArrivals ==
    /\ num_feds_proposed_start \in 0..number_of_federates
    /\ num_feds_proposed_start = Cardinality({h \in Feds : registered[h] > 0})
    /\ \A h \in Feds : registered[h] \in {0, 1}

\* N = 2: one thread has incremented and waits, the other has not yet arrived.
C16_Witness ==
    /\ number_of_federates = 2
    /\ num_feds_proposed_start = 1
    /\ \E h \in Active, k \in Active :
        /\ pc[h] = "waiting" /\ registered[h] = 1
        /\ pc[k] = "lock" /\ registered[k] = 0

\* The thread has left the read loop with a full buffer, and the process
\* (with the thread's locals) still exists.
ReadDone(h) ==
    \/ pc[h] \in {"decode", "lock", "crit", "waiting", "woken", "recheck", "unlock",
                  "write_marker", "write_time", "close"}
    \/ pc[h] = "returned" /\ Complete(h) /\ ~terminated

\* The thread has converted the payload.
Decoded(h) == ReadDone(h) /\ pc[h] # "decode"

\* C17: however the 9 bytes are split over reads, bytes_read stays in 0..9,
\* the buffer holds exactly the bytes_read bytes delivered so far, each read
\* asks for 9 - bytes_read bytes (so never past the end of the buffer), the
\* thread leaves the read loop only with bytes_read = 9, and the instant it
\* decodes is the one in the peer's 9-byte message.
C17_PartialReadsAccumulate ==
    \A h \in Feds :
        /\ bytes_read[h] \in 0..MsgLen
        /\ Len(buffer[h]) = bytes_read[h]
        /\ pc[h] = "read" =>
                /\ NeedMore(bytes_read[h])
                /\ ReadRequest(bytes_read[h]) >= 1
                /\ bytes_read[h] + ReadRequest(bytes_read[h]) = MsgLen
                /\ buffer[h] = msg[h]
        /\ ReadDone(h) => bytes_read[h] = MsgLen /\ buffer[h] = msg[h]
        /\ Decoded(h) => timestamp[h] = Proposed(h)

\* A thread has decoded a nonzero instant while another thread sits in the
\* read loop with 8 of its 9 bytes.
C17_Witness ==
    \E h \in Feds, k \in Feds :
        /\ pc[h] = "read" /\ bytes_read[h] = MsgLen - 1
        /\ Decoded(k) /\ timestamp[k] # 0

\* C18: a thread that returned from pthread_cond_wait while
\* num_feds_proposed_start < number_of_federates goes back into the wait and
\* does not leave the critical section; a thread leaves the wait loop for
\* pthread_mutex_unlock only when the counter equals number_of_federates.
C18_WakeupRechecked ==
    [][\A h \in Feds :
        /\ (pc[h] \in {"woken", "recheck"}
                /\ num_feds_proposed_start < number_of_federates
                /\ ~terminated')
            => pc'[h] \in {"woken", "recheck", "waiting"}
        /\ (InBarrier(h) /\ pc'[h] \notin {"waiting", "woken", "recheck", "killed"})
            => /\ pc[h] = "recheck"
               /\ pc'[h] = "unlock"
               /\ num_feds_proposed_start = number_of_federates]_vars

\* A thread returned from pthread_cond_wait, holds the mutex again and sees
\* fewer than N arrivals.
C18_Witness ==
    \E h \in Feds :
        /\ pc[h] = "recheck" /\ mutex = h
        /\ num_feds_proposed_start < number_of_federates

\* The instants the peers proposed.
Proposals == {Proposed(h) : h \in Active}

\* C19: the value delivered to a peer is max(0, t1..tN); it is never negative,
\* and it is max(t1..tN) exactly when some proposal is >= 0.
C19_ResponseIsMaxWithZero ==
    \A h \in Active :
        Responded(h) =>
            /\ \A k \in Active : Complete(k)
            /\ ResponseInstant(h) = SetMax(Proposals \cup {0})
            /\ ResponseInstant(h) >= 0
            /\ (ResponseInstant(h) = SetMax(Proposals)) <=> (\E t \in Proposals : t >= 0)

\* N = 2, both proposals negative, and a peer has received 0.
C19_Witness ==
    /\ number_of_federates = 2
    /\ \E h \in Active :
        /\ Responded(h)
        /\ ResponseInstant(h) = 0
        /\ \A t \in Proposals : t < 0

\* The thread is in, or about to enter, a read, write or close of its socket.
InSocketIO(h) == pc[h] \in {"read", "write_marker", "write_time", "close"}

\* C20: a thread in a read, write or close of its connection does not hold
\* the mutex, so a thread at pthread_mutex_lock can take the mutex whenever no
\* other thread is between lock and unlock, whatever the peers of the other
\* connections are doing.
C20_NoIOUnderMutex ==
    /\ \A h \in Feds : InSocketIO(h) => mutex # h
    /\ \A k \in Feds :
        (pc[k] = "lock" /\ ~terminated /\ \A h \in Feds \ {k} : ~Holder(h))
            => ENABLED Lock(k)

\* One peer has sent only part of its message; meanwhile the other thread has
\* taken the mutex and registered its proposal.
C20_Witness ==
    \E h \in Feds, k \in Feds :
        /\ pc[h] = "read" /\ bytes_read[h] \in 1..(MsgLen - 1)
        /\ registered[k] = 1 /\ pc[k] = "waiting"

====
